---- MODULE Spec2Model ----
(***************************************************************************)
(* daisy-engine: the client-side Room (connect outcome, ping cycle,        *)
(* latency window), the server-side Room (session registry, send and       *)
(* broadcast gating) and the server's fixed-timestep tick loop, modelled   *)
(* from packages/client/src/lib/room.ts.                                   *)
(***************************************************************************)
EXTENDS Integers, Sequences, FiniteSets, TLC

(***************************************************************************)
(* Bounds of the model.                                                    *)
(***************************************************************************)
\* frames the client receives in one run
MaxFrames == 3
\* largest value of the client's clock (Date.now())
MaxClock == 1
\* onMessage registrations in one run
MaxRegs == 2
\* encodes by the server Rooms in one run
MaxEncodes == 3
\* bytes of the scratch buffer the model keeps
BufferSize == 16
\* sessions the server accepts in one run
MaxSessions == 3
\* send / broadcast calls of the server in one run
MaxCalls == 1
\* largest value of the server's clock (performance.now())
MaxNow == 12

(***************************************************************************)
(* Program constants.                                                      *)
(***************************************************************************)
\* _localClientId before a ClientId frame
NoClientId == -1
\* latencySampleSize's default
DefaultLatencySampleSize == 10
\* pingDelay's default
DefaultPingDelay == 5000
\* _maxAccumulation's default
DefaultMaxAccumulation == 25

\* JavaScript's undefined, for string-valued fields
Undefined == "undefined"

VARIABLES
    \* ---- client Room
    net,                    \* the transport: "idle", "connecting", "open", "closed"
    connectResultCallback,  \* whether _connectResultCallback is set
    connectPromise,         \* the promise _internalConnect returns
    roomId,                 \* _id
    closeReason,            \* _closeReason
    localClientId,          \* _localClientId
    pingTimeout,            \* _pingTimeout: a timer handle, 0 for undefined
    timers,                 \* the pending setTimeout timers
    nextHandle,             \* the handle the next setTimeout returns
    lastPingTimestamp,      \* _lastPingTimestamp
    latencySamples,         \* _latencySamples
    latencySampleSize,      \* latencySampleSize
    pingDelay,              \* pingDelay
    clock,                  \* Date.now()
    pingsSent,              \* Ping frames handed to the transport
    closeFired,             \* invocations of the close observers
    errorFired,             \* invocations of the error observers
    received,               \* frames received so far
    firstControl,           \* history: the first RoomInfo, Error or CloseReason frame
    recorded,               \* history: every latency sample, in arrival order
    \* ---- server Room: registry
    clients,                \* clients: session id -> session
    status,                 \* each session's ClientStatus
    wire,                   \* the frames handed to each session's transport
    live,                   \* history: sessions accepted and not yet closed
    lastOps,                \* history: the steps of the last handler, in order
    hookSaw,                \* history: the registry's keys when the last hook ran
    lastCall,               \* history: the last send / broadcast call
    calls,                  \* send / broadcast calls so far
    \* ---- server Room: tick loop
    constructed,            \* whether the constructor has run
    tickNumber,             \* _tickNumber
    lastTime,               \* _lastTime
    accumulator,            \* _accumulator
    deltaTimeMs,            \* _deltaTimeMs
    maxAccumulation,        \* _maxAccumulation
    stopTicking,            \* _stopTicking
    disableBuiltinTicker,   \* _disableBuiltinTicker
    now,                    \* performance.now()
    immediate,              \* whether a setImmediate wake is pending
    rescheduled,            \* history: whether the last step called setImmediate
    tickCalls,              \* history: tick() invocations of the last step
    clamped,                \* history: the sum of the wakes' clamped elapsed times
    rateChanged,            \* history: setTickRate was called after construction
    \* ---- user messages: the handler tables of both sides and the frames received
    cHandlers,              \* the client's _messageHandlers: a Map
    sHandlers,              \* the server's _messageHandlers: own properties of the Map object
    registered,             \* history: per side, the last handler registered per identifier
    regs,                   \* onMessage calls so far
    lastRecv,               \* history: the last UserPacket frame received and what it did
    \* ---- encoding: the server module's scratch buffer and the client's transport
    BUFFER,                 \* the module-level BUFFER all server Rooms write into
    view,                   \* per server Room, the length of the view its last encode returned
    snap,                   \* history: per server Room, the bytes of that view when returned
    encodes,                \* encodes so far
    netSent,                \* the frames the client handed to its transport (_net.send)
    \* ---- the join: the client's connection as a session of the server
    mySession               \* the server session of the client's connection, 0 before the accept

clientVars == <<net, connectResultCallback, connectPromise, roomId, closeReason,
                localClientId, pingTimeout, timers, nextHandle, lastPingTimestamp,
                latencySamples, latencySampleSize, pingDelay, clock, pingsSent,
                closeFired, errorFired, received, firstControl, recorded>>
registryVars == <<clients, status, wire, live, lastOps, hookSaw, lastCall, calls>>
tickVars == <<constructed, tickNumber, lastTime, accumulator, deltaTimeMs,
              maxAccumulation, stopTicking, disableBuiltinTicker, now, immediate,
              rescheduled, tickCalls, clamped, rateChanged>>
msgVars == <<cHandlers, sHandlers, registered, regs, lastRecv>>
encVars == <<BUFFER, view, snap, encodes, netSent>>
joinVars == <<mySession>>
vars == <<clientVars, registryVars, tickVars, msgVars, encVars, joinVars>>

(***************************************************************************)
(* The client-side Room.                                                   *)
(***************************************************************************)

\* Number.MAX_VALUE, the initial _lastPingTimestamp (a stand-in larger than any clock)
NumberMaxValue == 1000000

\* the texts an Error or CloseReason frame carries; "" is a length-0 text
Texts == {"", "denied"}
\* the room ids a RoomInfo frame carries
RoomIds == {"lobby"}
\* the session ids a ClientId frame carries
SessionIds == {7}

Frame(k, t, n) == [kind |-> k, text |-> t, num |-> n]

\* the frames the server side of the transport can deliver, decoded
ServerFrames ==
    {Frame("Ping", "", 0)}
    \cup {Frame("RoomInfo", t, 0) : t \in RoomIds}
    \cup {Frame("ClientId", "", n) : n \in SessionIds}
    \cup {Frame("Error", t, 0) : t \in Texts}
    \cup {Frame("CloseReason", t, 0) : t \in Texts}

NoFrame == Frame("none", "", 0)

\* pingDelay: number | undefined
Delay(d, ms) == [defined |-> d, ms |-> ms]
PingDelays == {Delay(FALSE, 0), Delay(TRUE, 0), Delay(TRUE, DefaultPingDelay)}

\* the values a consumer assigns to latencySampleSize
SampleSizes == {1, DefaultLatencySampleSize}

\* JavaScript's truthiness of a string | undefined value
Truthy(v) == v # Undefined /\ v # ""

\* a promise's reject and resolve: they act on a pending promise only
Reject(p, v) == IF p.state = "pending" THEN [state |-> "rejected", value |-> v] ELSE p
Resolve(p) == IF p.state = "pending" THEN [state |-> "fulfilled", value |-> Undefined] ELSE p

\* _connectResultCallback: (error) => { if (error) return reject(error); resolve(); }
ConnectResultCallback(p, error) == IF Truthy(error) THEN Reject(p, error) ELSE Resolve(p)

\* the guarded invocation: if (this._connectResultCallback) this._connectResultCallback(error)
InvokeConnectResult(p, error) ==
    IF connectResultCallback THEN ConnectResultCallback(p, error) ELSE p

\* clearTimeout(handle) / clearInterval(handle): the timer of that handle is dropped
ClearTimeout(ts, h) == {t \in ts : t.h # h}

\* currentLatency: the last element of _latencySamples (of a window that is not empty)
CurrentLatency(samples) == samples[Len(samples)]

\* push(latency), then one shift() if the window is longer than latencySampleSize
RecordSample(samples, latency, size) ==
    LET pushed == Append(samples, latency)
    IN IF Len(pushed) > size THEN Tail(pushed) ELSE pushed

ClientInit ==
    /\ net = "idle"
    /\ connectResultCallback = FALSE
    /\ connectPromise = [state |-> "none", value |-> Undefined]
    /\ roomId = Undefined
    /\ closeReason = Undefined
    /\ localClientId = NoClientId
    /\ pingTimeout = 0
    /\ timers = {}
    /\ nextHandle = 1
    /\ lastPingTimestamp = NumberMaxValue
    /\ latencySamples = <<>>
    /\ latencySampleSize = DefaultLatencySampleSize
    /\ pingDelay = Delay(TRUE, DefaultPingDelay)
    /\ clock = 0
    /\ pingsSent = 0
    /\ closeFired = 0
    /\ errorFired = 0
    /\ received = 0
    /\ firstControl = NoFrame
    /\ recorded = <<>>

\* _ping(): clearTimeout(_pingTimeout), stamp, send a Ping frame
Ping(ts) ==
    /\ timers' = ClearTimeout(ts, pingTimeout)
    /\ lastPingTimestamp' = clock
    /\ pingsSent' = pingsSent + 1

\* _internalConnect up to its await: the callbacks and the promise are set up
InternalConnect ==
    /\ net = "idle"
    /\ net' = "connecting"
    /\ connectResultCallback' = TRUE
    /\ connectPromise' = [state |-> "pending", value |-> Undefined]
    /\ UNCHANGED <<roomId, closeReason, localClientId, pingTimeout, timers, nextHandle,
                   lastPingTimestamp, latencySamples, latencySampleSize, pingDelay,
                   clock, pingsSent, closeFired, errorFired, received, firstControl,
                   recorded>>
    /\ UNCHANGED <<registryVars, tickVars, msgVars, encVars, joinVars>>

\* _internalConnect after connectAsync: the init packet is sent and the ping cycle starts
ConnectOpened ==
    /\ net = "connecting"
    /\ net' = "open"
    /\ Ping(timers)
    /\ UNCHANGED <<connectResultCallback, connectPromise, roomId, closeReason,
                   localClientId, pingTimeout, nextHandle, latencySamples,
                   latencySampleSize, pingDelay, clock, closeFired, errorFired,
                   received, firstControl, recorded>>
    /\ UNCHANGED <<registryVars, tickVars, msgVars, encVars, joinVars>>

\* _onClose: clearInterval(_pingTimeout), then the close observers
OnClose ==
    /\ net = "open"
    /\ net' = "closed"
    /\ timers' = ClearTimeout(timers, pingTimeout)
    /\ closeFired' = closeFired + 1
    /\ UNCHANGED <<connectResultCallback, connectPromise, roomId, closeReason,
                   localClientId, pingTimeout, nextHandle, lastPingTimestamp,
                   latencySamples, latencySampleSize, pingDelay, clock, pingsSent,
                   errorFired, received, firstControl, recorded>>
    /\ UNCHANGED <<registryVars, tickVars, msgVars, encVars, joinVars>>

\* history: the first RoomInfo, Error or CloseReason frame of the connection
NoteControl(f) ==
    firstControl' = IF firstControl = NoFrame THEN f ELSE firstControl

\* _onMessage, case ServerProtocol.Ping
OnPing ==
    LET latency == clock - lastPingTimestamp
    IN /\ latencySamples' = RecordSample(latencySamples, latency, latencySampleSize)
       /\ recorded' = Append(recorded, latency)
       /\ pingTimeout' = nextHandle
       /\ timers' = timers \cup {[h |-> nextHandle, delay |-> pingDelay]}
       /\ nextHandle' = nextHandle + 1
       /\ UNCHANGED <<connectPromise, roomId, closeReason, localClientId,
                      lastPingTimestamp, pingsSent, errorFired, firstControl>>

\* _onMessage, case ServerProtocol.RoomInfo
OnRoomInfo(f) ==
    /\ roomId' = f.text
    /\ connectPromise' = InvokeConnectResult(connectPromise, Undefined)
    /\ NoteControl(f)
    /\ UNCHANGED <<closeReason, localClientId, pingTimeout, timers, nextHandle,
                   lastPingTimestamp, latencySamples, pingsSent, errorFired, recorded>>

\* _onMessage, case ServerProtocol.ClientId
OnClientId(f) ==
    /\ localClientId' = f.num
    /\ UNCHANGED <<connectPromise, roomId, closeReason, pingTimeout, timers, nextHandle,
                   lastPingTimestamp, latencySamples, pingsSent, errorFired,
                   firstControl, recorded>>

\* _onMessage, case ServerProtocol.Error
OnError(f) ==
    /\ connectPromise' = InvokeConnectResult(connectPromise, f.text)
    /\ errorFired' = errorFired + 1
    /\ NoteControl(f)
    /\ UNCHANGED <<roomId, closeReason, localClientId, pingTimeout, timers, nextHandle,
                   lastPingTimestamp, latencySamples, pingsSent, recorded>>

\* _onMessage, case ServerProtocol.CloseReason
OnCloseReason(f) ==
    /\ connectPromise' = InvokeConnectResult(connectPromise, f.text)
    /\ closeReason' = f.text
    /\ NoteControl(f)
    /\ UNCHANGED <<roomId, localClientId, pingTimeout, timers, nextHandle,
                   lastPingTimestamp, latencySamples, pingsSent, errorFired, recorded>>

\* _onMessage: one frame delivered by the open transport
OnMessage ==
    /\ net = "open"
    /\ received < MaxFrames
    /\ received' = received + 1
    /\ \E f \in ServerFrames :
         CASE f.kind = "Ping" -> OnPing
           [] f.kind = "RoomInfo" -> OnRoomInfo(f)
           [] f.kind = "ClientId" -> OnClientId(f)
           [] f.kind = "Error" -> OnError(f)
           [] f.kind = "CloseReason" -> OnCloseReason(f)
    /\ UNCHANGED <<net, connectResultCallback, latencySampleSize, pingDelay, clock,
                   closeFired>>
    /\ UNCHANGED <<registryVars, tickVars, msgVars, encVars, joinVars>>

\* a pending ping timer fires: () => this._ping()
TimerFires ==
    /\ \E t \in timers : Ping(timers \ {t})
    /\ UNCHANGED <<net, connectResultCallback, connectPromise, roomId, closeReason,
                   localClientId, pingTimeout, nextHandle, latencySamples,
                   latencySampleSize, pingDelay, clock, closeFired, errorFired,
                   received, firstControl, recorded>>
    /\ UNCHANGED <<registryVars, tickVars, msgVars, encVars, joinVars>>

\* the consumer assigns pingDelay
SetPingDelay ==
    /\ \E d \in PingDelays : d # pingDelay /\ pingDelay' = d
    /\ UNCHANGED <<net, connectResultCallback, connectPromise, roomId, closeReason,
                   localClientId, pingTimeout, timers, nextHandle, lastPingTimestamp,
                   latencySamples, latencySampleSize, clock, pingsSent, closeFired,
                   errorFired, received, firstControl, recorded>>
    /\ UNCHANGED <<registryVars, tickVars, msgVars, encVars, joinVars>>

\* the consumer assigns latencySampleSize
SetLatencySampleSize ==
    /\ \E n \in SampleSizes : n # latencySampleSize /\ latencySampleSize' = n
    /\ UNCHANGED <<net, connectResultCallback, connectPromise, roomId, closeReason,
                   localClientId, pingTimeout, timers, nextHandle, lastPingTimestamp,
                   latencySamples, pingDelay, clock, pingsSent, closeFired,
                   errorFired, received, firstControl, recorded>>
    /\ UNCHANGED <<registryVars, tickVars, msgVars, encVars, joinVars>>

\* time passes on the client
ClockAdvance ==
    /\ clock < MaxClock
    /\ clock' = clock + 1
    /\ UNCHANGED <<net, connectResultCallback, connectPromise, roomId, closeReason,
                   localClientId, pingTimeout, timers, nextHandle, lastPingTimestamp,
                   latencySamples, latencySampleSize, pingDelay, pingsSent, closeFired,
                   errorFired, received, firstControl, recorded>>
    /\ UNCHANGED <<registryVars, tickVars, msgVars, encVars, joinVars>>

ClientNext ==
    \/ InternalConnect
    \/ ConnectOpened
    \/ OnClose
    \/ OnMessage
    \/ TimerFires
    \/ SetPingDelay
    \/ SetLatencySampleSize
    \/ ClockAdvance

(***************************************************************************)
(* The server-side Room: the session registry, send and broadcast.         *)
(***************************************************************************)

\* the ids the server gives its sessions, in this order, none of them twice
Ids == 1..MaxSessions

\* the server room's id
ServerRoomId == "lobby"

\* the CloseReason text of a rejected authentication
AuthError == "denied"

\* event identifiers: a number or a string
NumEvent(n) == [tag |-> "num", n |-> n, s |-> ""]
StrEvent(t) == [tag |-> "str", n |-> 0, s |-> t]
Events == {NumEvent(5), NumEvent(256), StrEvent("chat")}

\* BUFFER.writeUInt8(event, ...) accepts 0..255 and throws a RangeError otherwise
ValidEvent(ev) == ev.tag = "str" \/ (ev.n >= 0 /\ ev.n <= 255)

UserPacket(ev) == [kind |-> "UserPacket", text |-> ev.s, num |-> ev.n]

\* the state a handler of the server Room works on
RoomState == [clients |-> clients, wire |-> wire, ops |-> <<>>, saw |-> hookSaw]

NoHook == [hook |-> "none", c |-> 0, keys |-> {}]
NoCall == [op |-> "none", ev |-> NumEvent(0), target |-> 0, raised |-> FALSE,
           skipped |-> {}]

\* client._internalSend(bytes): the bytes are handed to the session's transport
InternalSend(r, c, f) == [r EXCEPT !.wire[c] = Append(@, f)]

\* _sendClientId(client)
SendClientId(r, c) ==
    [InternalSend(r, c, Frame("ClientId", "", c)) EXCEPT !.ops = Append(@, "sendClientId")]

\* _sendRoomInfo(client)
SendRoomInfo(r, c) ==
    [InternalSend(r, c, Frame("RoomInfo", ServerRoomId, 0))
        EXCEPT !.ops = Append(@, "sendRoomInfo")]

\* this.clients.set(client.id, client)
ClientsSet(r, c) ==
    [r EXCEPT !.clients = (c :> c) @@ r.clients, !.ops = Append(@, "clientsSet")]

\* the removal keyed by the session object, not by its id: no entry has that key
ClientsDeleteByObject(r, c) == [r EXCEPT !.ops = Append(@, "clientsDelete")]

\* this.clients.delete(client.id)
ClientsDelete(r, c) ==
    [r EXCEPT !.clients = [k \in (DOMAIN r.clients) \ {c} |-> r.clients[k]],
              !.ops = Append(@, "clientsDelete")]

\* onClientJoined(client): the hook sees the registry as it is when it is invoked
OnClientJoined(r, c) ==
    [r EXCEPT !.saw = [hook |-> "joined", c |-> c, keys |-> DOMAIN r.clients],
              !.ops = Append(@, "onClientJoined")]

\* onClientLeft(client)
OnClientLeft(r, c) ==
    [r EXCEPT !.saw = [hook |-> "left", c |-> c, keys |-> DOMAIN r.clients],
              !.ops = Append(@, "onClientLeft")]

\* _internalOnOpen with the join hook invoked before the registry insert
InternalOnOpenHookFirst(r, c) ==
    ClientsSet(OnClientJoined(SendRoomInfo(SendClientId(r, c), c), c), c)

\* _internalOnOpen(client)
InternalOnOpen(r, c) ==
    OnClientJoined(ClientsSet(SendRoomInfo(SendClientId(r, c), c), c), c)

\* _internalOnClose with the leave hook invoked before the registry removal
InternalOnCloseHookFirst(r, c) == ClientsDelete(OnClientLeft(r, c), c)

\* _internalOnClose(client, code, reason)
InternalOnClose(r, c) == OnClientLeft(ClientsDelete(r, c), c)

\* _packMessage writing any number as the event, without a range check
PackMessageUnchecked(ev) == [raised |-> FALSE, frame |-> UserPacket(ev)]

\* _packMessage(event, data): the UserPacket, or the RangeError of writeUInt8
PackMessage(ev) == [raised |-> ~ValidEvent(ev), frame |-> UserPacket(ev)]

\* send without the status gate
SendUngated(r, st, c, ev) ==
    LET m == PackMessage(ev)
    IN IF m.raised THEN [room |-> r, raised |-> TRUE]
       ELSE [room |-> InternalSend(r, c, m.frame), raised |-> FALSE]

\* send(client, event, data)
Send(r, st, c, ev) ==
    IF st[c] # "Joined" THEN [room |-> r, raised |-> FALSE]
    ELSE LET m == PackMessage(ev)
         IN IF m.raised THEN [room |-> r, raised |-> TRUE]
            ELSE [room |-> InternalSend(r, c, m.frame), raised |-> FALSE]

\* _broadcast(msg): every registered session in Joined status is handed msg
BroadcastMsg(r, st, f) ==
    [r EXCEPT !.wire = [c \in DOMAIN r.wire |->
        IF c \in DOMAIN r.clients /\ st[r.clients[c]] = "Joined"
        THEN Append(r.wire[c], f) ELSE r.wire[c]]]

\* broadcast(event, data)
Broadcast(r, st, ev) ==
    LET m == PackMessage(ev)
    IN IF m.raised THEN [room |-> r, raised |-> TRUE]
       ELSE [room |-> BroadcastMsg(r, st, m.frame), raised |-> FALSE]

RegistryInit ==
    /\ clients = << >>
    /\ status = [c \in Ids |-> "None"]
    /\ wire = [c \in Ids |-> <<>>]
    /\ live = {}
    /\ lastOps = <<>>
    /\ hookSaw = NoHook
    /\ lastCall = NoCall
    /\ calls = 0

\* the id of the next session: ids are given in order and never reused
NextId == CHOOSE c \in Ids : status[c] = "None" /\ \A d \in Ids : d < c => status[d] # "None"

Commit(r) ==
    /\ clients' = r.clients
    /\ wire' = r.wire
    /\ lastOps' = r.ops
    /\ hookSaw' = r.saw

\* a transport is accepted and the session joins the room
TransportAccept ==
    /\ \E c \in Ids : status[c] = "None"
    /\ LET c == NextId
       IN /\ Commit(InternalOnOpen(RoomState, c))
          /\ status' = [status EXCEPT ![c] = "Joined"]
          /\ live' = live \cup {c}
    /\ UNCHANGED <<lastCall, calls>>
    /\ UNCHANGED <<clientVars, tickVars, msgVars, encVars, joinVars>>

\* a transport is accepted and onClientAuth rejects it: CloseReason, then the close
AuthRejected ==
    /\ \E c \in Ids : status[c] = "None"
    /\ LET c == NextId
       IN /\ Commit(InternalSend(RoomState, c, Frame("CloseReason", AuthError, 0)))
          /\ status' = [status EXCEPT ![c] = "Closed"]
    /\ UNCHANGED <<live, lastCall, calls>>
    /\ UNCHANGED <<clientVars, tickVars, msgVars, encVars, joinVars>>

\* the server closes a session: its status leaves Joined before the close event arrives
BeginClose ==
    /\ \E c \in live :
         /\ status[c] = "Joined"
         /\ status' = [status EXCEPT ![c] = "Closed"]
    /\ UNCHANGED <<clients, wire, live, lastOps, hookSaw, lastCall, calls>>
    /\ UNCHANGED <<clientVars, tickVars, msgVars, encVars, joinVars>>

\* the transport's close event of a session
TransportClose ==
    /\ \E c \in live :
         /\ Commit(InternalOnClose(RoomState, c))
         /\ status' = [status EXCEPT ![c] = "Closed"]
         /\ live' = live \ {c}
    /\ UNCHANGED <<lastCall, calls>>
    /\ UNCHANGED <<clientVars, tickVars, msgVars, encVars, joinVars>>

\* the application calls send(client, event, data)
CallSend ==
    /\ calls < MaxCalls
    /\ calls' = calls + 1
    /\ \E c \in Ids, ev \in Events :
         /\ status[c] # "None"
         /\ LET res == Send(RoomState, status, c, ev)
            IN /\ Commit(res.room)
               /\ lastCall' = [op |-> "send", ev |-> ev, target |-> c,
                               raised |-> res.raised,
                               skipped |-> IF status[c] # "Joined" THEN {c} ELSE {}]
    /\ UNCHANGED <<status, live>>
    /\ UNCHANGED <<clientVars, tickVars, msgVars, encVars, joinVars>>

\* the application calls broadcast(event, data)
CallBroadcast ==
    /\ calls < MaxCalls
    /\ calls' = calls + 1
    /\ \E ev \in Events :
         LET res == Broadcast(RoomState, status, ev)
         IN /\ Commit(res.room)
            /\ lastCall' = [op |-> "broadcast", ev |-> ev, target |-> 0,
                            raised |-> res.raised,
                            skipped |-> {c \in DOMAIN clients : status[c] # "Joined"}]
    /\ UNCHANGED <<status, live>>
    /\ UNCHANGED <<clientVars, tickVars, msgVars, encVars, joinVars>>

ServerNext ==
    \/ TransportAccept
    \/ AuthRejected
    \/ BeginClose
    \/ TransportClose
    \/ CallSend
    \/ CallBroadcast

(***************************************************************************)
(* The server-side Room: the built-in fixed-timestep ticker.               *)
(***************************************************************************)

\* _deltaTimeMs: undefined until setTickRate, then 1000 / ticksPerSecond
Undef == [k |-> "undef", v |-> 0]
Infinity == [k |-> "inf", v |-> 0]
Num(v) == [k |-> "num", v |-> v]

\* the rates (ticks per second) a consumer configures; 1000 / rate is exact
PositiveRates == {250, 500}
TickRates == PositiveRates \cup {0, -1000}
\* the values a consumer passes to setMaxAccumulation
MaxAccumulations == {3, DefaultMaxAccumulation}
\* the times (ms) that pass between two events of the server's loop
Elapses == {1, 4}

Min(a, b) == IF a <= b THEN a ELSE b

\* 1000 / ticksPerSecond
Quotient(tps) ==
    IF tps = 0 THEN Infinity
    ELSE IF tps > 0 THEN Num(1000 \div tps) ELSE Num(0 - (1000 \div (0 - tps)))

\* accumulator >= _deltaTimeMs: false against undefined (NaN) and against Infinity
AtLeast(acc, dt) == dt.k = "num" /\ acc >= dt.v

\* the fields _tick and setTickRate work on
Ticker == [tickNumber |-> tickNumber, lastTime |-> lastTime, acc |-> accumulator,
           dt |-> deltaTimeMs, maxAcc |-> maxAccumulation, stop |-> stopTicking,
           disable |-> disableBuiltinTicker, returned |-> FALSE, ticks |-> 0,
           frameTime |-> 0]

\* setTickRate(ticksPerSecond)
SetTickRate(t, tps) ==
    [t EXCEPT !.disable = IF tps <= 0 THEN TRUE ELSE @, !.dt = Quotient(tps)]

\* setMaxAccumulation(maxAccumulation)
SetMaxAccumulation(t, m) == [t EXCEPT !.maxAcc = m]

\* the loop of _tick run at most once
TickOnce(t) ==
    IF AtLeast(t.acc, t.dt)
    THEN IF t.stop \/ t.disable THEN [t EXCEPT !.returned = TRUE]
         ELSE [t EXCEPT !.acc = @ - t.dt.v, !.tickNumber = @ + 1, !.ticks = @ + 1]
    ELSE t

\* the while loop with the stop check after the tick hook instead of before it
RECURSIVE TickWhileCheckAfter(_)
TickWhileCheckAfter(t) ==
    IF AtLeast(t.acc, t.dt)
    THEN LET u == [t EXCEPT !.acc = @ - t.dt.v, !.tickNumber = @ + 1, !.ticks = @ + 1]
         IN IF t.stop \/ t.disable THEN [u EXCEPT !.returned = TRUE]
            ELSE TickWhileCheckAfter(u)
    ELSE t

\* the while loop of _tick: it returns from _tick when stopped or disabled
RECURSIVE TickWhile(_)
TickWhile(t) ==
    IF AtLeast(t.acc, t.dt)
    THEN IF t.stop \/ t.disable THEN [t EXCEPT !.returned = TRUE]
         ELSE TickWhile([t EXCEPT !.acc = @ - t.dt.v, !.tickNumber = @ + 1,
                                  !.ticks = @ + 1])
    ELSE t

\* _tick() without the clamp of the frame time to _maxAccumulation
TickUnclamped(t, newTime) ==
    LET frameTime == newTime - t.lastTime
    IN TickWhile([t EXCEPT !.lastTime = newTime, !.acc = @ + frameTime,
                           !.frameTime = frameTime])

\* _tick(): the wake's clamped frame time is accumulated, then the loop; a wake that
\* did not return from inside the loop calls setImmediate
Tick(t, newTime) ==
    LET frameTime == Min(t.maxAcc, newTime - t.lastTime)
    IN TickWhile([t EXCEPT !.lastTime = newTime, !.acc = @ + frameTime,
                           !.frameTime = frameTime])

\* _postInit(): the ticker starts unless it is disabled
PostInit(t, newTime) ==
    IF ~t.disable
    THEN Tick([t EXCEPT !.lastTime = newTime, !.acc = 0, !.stop = FALSE], newTime)
    ELSE [t EXCEPT !.returned = TRUE]

TickInit ==
    /\ constructed = FALSE
    /\ tickNumber = 0
    /\ lastTime = 0
    /\ accumulator = 0
    /\ deltaTimeMs = Undef
    /\ maxAccumulation = DefaultMaxAccumulation
    /\ stopTicking = FALSE
    /\ disableBuiltinTicker = FALSE
    /\ now = 0
    /\ immediate = FALSE
    /\ rescheduled = FALSE
    /\ tickCalls = 0
    /\ clamped = 0
    /\ rateChanged = FALSE

CommitTicker(t) ==
    /\ tickNumber' = t.tickNumber
    /\ lastTime' = t.lastTime
    /\ accumulator' = t.acc
    /\ deltaTimeMs' = t.dt
    /\ maxAccumulation' = t.maxAcc
    /\ stopTicking' = t.stop
    /\ disableBuiltinTicker' = t.disable
    /\ tickCalls' = t.ticks

\* what init(opts) does: it configures the tick rate, or leaves it unset
InitHook(t, rate, m) ==
    LET u == SetMaxAccumulation(t, m)
    IN IF rate.set THEN SetTickRate(u, rate.tps) ELSE u

\* the constructor: init(opts), then _postInit()
Construct ==
    /\ ~constructed
    /\ constructed' = TRUE
    /\ \E rate \in {[set |-> FALSE, tps |-> 0]} \cup {[set |-> TRUE, tps |-> r] : r \in TickRates},
          m \in MaxAccumulations :
         LET t == PostInit(InitHook(Ticker, rate, m), now)
         IN /\ CommitTicker(t)
            /\ immediate' = ~t.returned
            /\ rescheduled' = ~t.returned
            /\ clamped' = IF t.returned THEN clamped ELSE clamped + t.frameTime
    /\ UNCHANGED <<now, rateChanged>>
    /\ UNCHANGED <<clientVars, registryVars, msgVars, encVars, joinVars>>

\* a scheduler wake: the setImmediate callback runs _tick()
Wake ==
    /\ constructed
    /\ immediate
    /\ LET t == Tick(Ticker, now)
       IN /\ CommitTicker(t)
          /\ immediate' = ~t.returned
          /\ rescheduled' = ~t.returned
          /\ clamped' = clamped + t.frameTime
    /\ UNCHANGED <<constructed, now, rateChanged>>
    /\ UNCHANGED <<clientVars, registryVars, msgVars, encVars, joinVars>>

\* the consumer calls setTickRate on the running room
CallSetTickRate ==
    /\ constructed
    /\ \E tps \in TickRates : CommitTicker(SetTickRate(Ticker, tps))
    /\ rateChanged' = TRUE
    /\ rescheduled' = FALSE
    /\ UNCHANGED <<constructed, now, immediate, clamped>>
    /\ UNCHANGED <<clientVars, registryVars, msgVars, encVars, joinVars>>

\* the consumer calls setMaxAccumulation on the running room
CallSetMaxAccumulation ==
    /\ constructed
    /\ \E m \in MaxAccumulations :
         m # maxAccumulation /\ CommitTicker(SetMaxAccumulation(Ticker, m))
    /\ rescheduled' = FALSE
    /\ UNCHANGED <<constructed, now, immediate, clamped, rateChanged>>
    /\ UNCHANGED <<clientVars, registryVars, msgVars, encVars, joinVars>>

\* the ticker is stopped: the one-way stop switch _stopTicking is set
CallStop ==
    /\ constructed
    /\ ~stopTicking
    /\ stopTicking' = TRUE
    /\ rescheduled' = FALSE
    /\ tickCalls' = 0
    /\ UNCHANGED <<constructed, tickNumber, lastTime, accumulator, deltaTimeMs,
                   maxAccumulation, disableBuiltinTicker, now, immediate, clamped,
                   rateChanged>>
    /\ UNCHANGED <<clientVars, registryVars, msgVars, encVars, joinVars>>

\* time passes on the server
NowAdvance ==
    /\ constructed
    /\ \E d \in Elapses : now + d <= MaxNow /\ now' = now + d
    /\ rescheduled' = FALSE
    /\ tickCalls' = 0
    /\ UNCHANGED <<constructed, tickNumber, lastTime, accumulator, deltaTimeMs,
                   maxAccumulation, stopTicking, disableBuiltinTicker, immediate,
                   clamped, rateChanged>>
    /\ UNCHANGED <<clientVars, registryVars, msgVars, encVars, joinVars>>

TickNext ==
    \/ Construct
    \/ Wake
    \/ CallSetTickRate
    \/ CallSetMaxAccumulation
    \/ CallStop
    \/ NowAdvance

(***************************************************************************)
(* User messages: the wire format of a UserPacket, both sides' encoder and *)
(* decoder, and the handler tables. A text is the sequence of its UTF-16   *)
(* code units, a buffer the sequence of its bytes; position p of a buffer  *)
(* is the code's offset p - 1.                                             *)
(***************************************************************************)

\* the packet ids of @daisy-engine/common
ClientProtocolUserPacket == 1
ServerProtocolUserPacket == 1
ServerProtocolRoomInfo == 2
ServerProtocolClientId == 3

Sides == {"client", "server"}
Peer(side) == IF side = "client" THEN "server" ELSE "client"
\* the packet id the encoder of a side writes
UserPacketId(side) ==
    IF side = "client" THEN ClientProtocolUserPacket ELSE ServerProtocolUserPacket

\* event identifiers and payloads, as the application passes them
EvNum(n) == [tag |-> "num", n |-> n, u |-> <<>>]
EvText(u) == [tag |-> "str", n |-> 0, u |-> u]
DataBytes(b) == [tag |-> "bytes", v |-> b]
DataText(u) == [tag |-> "text", v |-> u]
NoEvent == [tag |-> "none", n |-> 0, u |-> <<>>]
NoData == [tag |-> "none", v |-> <<>>]

\* "5", "has", and a text with a non-ASCII code unit
Text5 == <<53>>
TextHas == <<104, 97, 115>>
TextHi == <<104, 20013>>

\* the events and payloads of the model's UserPackets
MsgEvents == {EvNum(5), EvNum(255), EvText(Text5), EvText(TextHas), EvText(TextHi)}
MsgData == {DataBytes(<<>>), DataBytes(<<1, 0, 255>>), DataText(<<>>), DataText(TextHi)}
\* the events an application registers handlers for; 256 is out of range
RegEvents == {EvNum(5), EvText(Text5), EvText(TextHas), EvNum(256)}
\* the handlers an application registers
Handlers == {1, 2}

\* writeUInt16LE(n)
U16LE(n) == <<n % 256, (n \div 256) % 256>>

\* buf.write(text, offset, 'utf16le'): two bytes per code unit, low byte first
RECURSIVE Utf16le(_)
Utf16le(u) ==
    IF u = <<>> THEN <<>>
    ELSE <<u[1] % 256, u[1] \div 256>> \o Utf16le(Tail(u))

\* _packMessage, the event part
PackEvent(ev) ==
    IF ev.tag = "num" THEN <<0, ev.n>>
    ELSE <<1>> \o U16LE(Len(ev.u)) \o Utf16le(ev.u)

\* _packMessage, the data part
PackData(d) ==
    IF d.tag = "bytes" THEN <<0>> \o d.v
    ELSE <<1>> \o U16LE(Len(d.v)) \o Utf16le(d.v)

\* _packMessage(event, data) of a side: the bytes of the view it returns
PackMessageBytes(side, ev, d) == <<UserPacketId(side)>> \o PackEvent(ev) \o PackData(d)

\* readUInt16LE at position p
ReadUInt16LE(b, p) == b[p] + 256 * b[p + 1]

\* the text decoder reading code units high byte first
RECURSIVE ToStringUtf16be(_, _, _)
ToStringUtf16be(b, p, n) ==
    IF n = 0 \/ p + 1 > Len(b) THEN <<>>
    ELSE <<256 * b[p] + b[p + 1]>> \o ToStringUtf16be(b, p + 2, n - 1)

\* buf.toString('utf16le', start, end) for the bytes from position p on, n code units
\* asked for: the end is clamped to the buffer and an odd last byte is dropped
RECURSIVE ToStringUtf16le(_, _, _)
ToStringUtf16le(b, p, n) ==
    IF n = 0 \/ p + 1 > Len(b) THEN <<>>
    ELSE <<b[p] + 256 * b[p + 1]>> \o ToStringUtf16le(b, p + 2, n - 1)

\* what a decoding step gives: it threw, or a value and the next position
Threw == [threw |-> TRUE, ok |-> FALSE, event |-> NoEvent, data |-> NoData, next |-> 0]
Skipped == [threw |-> FALSE, ok |-> FALSE, event |-> NoEvent, data |-> NoData, next |-> 0]
GotEvent(ev, p) == [threw |-> FALSE, ok |-> TRUE, event |-> ev, data |-> NoData, next |-> p]
GotData(d) == [threw |-> FALSE, ok |-> TRUE, event |-> NoEvent, data |-> d, next |-> 0]

\* the read of a tag byte at position p: the client indexes the buffer (undefined past
\* the end, which matches no case), the server calls readUInt8 (a RangeError past the end)
TagPastEnd(side) == IF side = "client" THEN Skipped ELSE Threw

\* _onUserMessage / _internalOnUserMessage up to the handler lookup: the event
ReadEvent(side, b) ==
    IF Len(b) < 2 THEN TagPastEnd(side)
    ELSE IF b[2] = 0 THEN
        IF Len(b) < 3 THEN Threw ELSE GotEvent(EvNum(b[3]), 4)
    ELSE IF b[2] = 1 THEN
        IF Len(b) < 4 THEN Threw
        ELSE LET n == ReadUInt16LE(b, 3)
             IN GotEvent(EvText(ToStringUtf16le(b, 5, n)), 5 + 2 * n)
    ELSE Skipped

\* _getUserMessageContent(buf, ref) of a side, ref at position p
GetUserMessageContent(side, b, p) ==
    IF p > Len(b) THEN Threw
    ELSE IF b[p] = 0 THEN GotData(DataBytes(SubSeq(b, p + 1, Len(b))))
    ELSE IF b[p] = 1 THEN
        IF p + 2 > Len(b) THEN Threw
        ELSE GotData(DataText(ToStringUtf16le(b, p + 3, ReadUInt16LE(b, p + 1))))
    ELSE Threw

\* the decimal digits of a number, as code units: the property key of a numeric event
RECURSIVE DecimalUnits(_)
DecimalUnits(n) ==
    IF n < 10 THEN <<48 + n>> ELSE DecimalUnits(n \div 10) \o <<48 + (n % 10)>>

\* the key _messageHandlers[event] names: a property key is a string
PropertyKey(ev) == IF ev.tag = "num" THEN DecimalUnits(ev.n) ELSE ev.u

\* the properties the Map object inherits from Map.prototype (one of them: has)
InheritedProps == {TextHas}

\* a table's entry for a key, 0 when it has none
Lookup(table, key) ==
    IF \E e \in table : e[1] = key THEN (CHOOSE e \in table : e[1] = key)[2] ELSE 0

\* a table with key set to handler h
Store(table, key, h) == {e \in table : e[1] # key} \cup {<<key, h>>}

\* onMessage's range check of a numeric event
EventInRange(ev) == ~(ev.tag = "num" /\ (ev.n > 255 \/ ev.n < 0))

\* onMessage(event, handler) on the server: this._messageHandlers[event] = handler
ServerStore(table, ev, h) == Store(table, PropertyKey(ev), h)

\* this._messageHandlers[event] on the server: an own property, else an inherited one
\* (-1: a built-in function of Map.prototype), else undefined (0)
ServerGet(table, ev) ==
    LET k == PropertyKey(ev)
    IN IF \E e \in table : e[1] = k THEN Lookup(table, k)
       ELSE IF k \in InheritedProps THEN -1 ELSE 0

\* onMessage(event, handler) on the client: this._messageHandlers.set(event, handler)
ClientStore(table, ev, h) == Store(table, ev, h)

\* this._messageHandlers.get(event) on the client
ClientGet(table, ev) == Lookup(table, ev)

\* the transport closes a connection whose frame handler threw
ClosedByTransport(threw) == threw

\* what a received frame did
Recv(side, b, sent, ev, h, d, threw) ==
    [side |-> side, bytes |-> b, sent |-> sent, event |-> ev, invoked |-> h,
     data |-> d, threw |-> threw, closed |-> ClosedByTransport(threw)]
NoSent == [event |-> NoEvent, data |-> NoData]
NoRecv == Recv("none", <<>>, NoSent, NoEvent, 0, NoData, FALSE)

\* _onUserMessage (client) / _internalOnUserMessage (server) of a frame b: the handler
\* found for the event is called with the content; with no handler the content is not
\* read (handler?.call(...)); a built-in found in its place throws when called
OnUserMessage(side, b, sent) ==
    LET e == ReadEvent(side, b)
    IN IF e.threw THEN Recv(side, b, sent, NoEvent, 0, NoData, TRUE)
       ELSE IF ~e.ok THEN Recv(side, b, sent, NoEvent, 0, NoData, FALSE)
       ELSE LET h == IF side = "client" THEN ClientGet(cHandlers, e.event)
                     ELSE ServerGet(sHandlers, e.event)
            IN IF h = 0 THEN Recv(side, b, sent, e.event, 0, NoData, FALSE)
               ELSE LET c == GetUserMessageContent(side, b, e.next)
                    IN IF c.threw THEN Recv(side, b, sent, e.event, 0, NoData, TRUE)
                       ELSE IF h = -1 THEN Recv(side, b, sent, e.event, 0, c.data, TRUE)
                       ELSE Recv(side, b, sent, e.event, h, c.data, FALSE)

\* frames that do not follow the wire format, as they may arrive from a peer
RawFrames ==
    {<<1>>,
     <<1, 2, 5, 0>>,
     <<1, 0, 5>>,
     <<1, 0, 5, 7, 1>>,
     <<1, 0, 5, 1, 2, 0, 104, 0>>,
     <<1, 1, 3, 0, 53, 0>>}

MsgInit ==
    /\ cHandlers = {}
    /\ sHandlers = {}
    /\ registered = [side \in Sides |-> {}]
    /\ regs = 0
    /\ lastRecv = NoRecv

\* the application calls onMessage(event, handler) on a side; an out-of-range number throws
Register ==
    /\ regs < MaxRegs
    /\ regs' = regs + 1
    /\ \E side \in Sides, ev \in RegEvents, h \in Handlers :
         IF ~EventInRange(ev) THEN UNCHANGED <<cHandlers, sHandlers, registered>>
         ELSE /\ registered' = [registered EXCEPT ![side] = Store(@, ev, h)]
              /\ IF side = "client"
                 THEN cHandlers' = ClientStore(cHandlers, ev, h) /\ UNCHANGED sHandlers
                 ELSE sHandlers' = ServerStore(sHandlers, ev, h) /\ UNCHANGED cHandlers
    /\ UNCHANGED lastRecv
    /\ UNCHANGED <<clientVars, registryVars, tickVars, encVars, joinVars>>

\* a side sends a UserPacket and its peer receives the bytes
Deliver ==
    /\ \E side \in Sides, ev \in MsgEvents, d \in MsgData :
         lastRecv' = OnUserMessage(side, PackMessageBytes(Peer(side), ev, d),
                                   [event |-> ev, data |-> d])
    /\ UNCHANGED <<cHandlers, sHandlers, registered, regs>>
    /\ UNCHANGED <<clientVars, registryVars, tickVars, encVars, joinVars>>

\* a side receives a frame that does not follow the wire format
ReceiveRaw ==
    /\ \E side \in Sides, b \in RawFrames : lastRecv' = OnUserMessage(side, b, NoSent)
    /\ UNCHANGED <<cHandlers, sHandlers, registered, regs>>
    /\ UNCHANGED <<clientVars, registryVars, tickVars, encVars, joinVars>>

MsgNext ==
    \/ Register
    \/ Deliver
    \/ ReceiveRaw

(***************************************************************************)
(* Encoding: the client's send, and the scratch buffer of the server       *)
(* module, which every server Room of the process encodes into.            *)
(***************************************************************************)

\* the server Room instances of one process, and the id of each
Rooms == {1, 2}
RoomIdUnits(r) == <<96 + r>>

\* the UserPackets the server Rooms encode
EncEvents == {EvNum(5), EvText(Text5)}

\* writeUInt32LE(n)
U32LE(n) == <<n % 256, (n \div 256) % 256, (n \div 65536) % 256, (n \div 16777216) % 256>>

\* the buffer after writing bytes from offset 0: what lies beyond them stays
WriteBuffer(buf, bytes) ==
    [i \in 1..Len(buf) |-> IF i <= Len(bytes) THEN bytes[i] ELSE buf[i]]

\* _sendClientId: the bytes written
ClientIdBytes(id) == <<ServerProtocolClientId>> \o U32LE(id)

\* _sendRoomInfo: the bytes written
RoomInfoBytes(r) ==
    <<ServerProtocolRoomInfo>> \o U16LE(Len(RoomIdUnits(r))) \o Utf16le(RoomIdUnits(r))

EncInit ==
    /\ BUFFER = [i \in 1..BufferSize |-> 0]
    /\ view = [r \in Rooms |-> 0]
    /\ snap = [r \in Rooms |-> <<>>]
    /\ encodes = 0
    /\ netSent = <<>>

\* an encode of Room r wrote bytes and returned BUFFER.subarray(0, length)
Encoded(r, bytes) ==
    /\ Len(bytes) <= BufferSize
    /\ BUFFER' = WriteBuffer(BUFFER, bytes)
    /\ view' = [view EXCEPT ![r] = Len(bytes)]
    /\ snap' = [snap EXCEPT ![r] = bytes]

\* send or broadcast of a server Room: _packMessage(event, data)
RoomPackMessage ==
    /\ encodes < MaxEncodes
    /\ encodes' = encodes + 1
    /\ \E r \in Rooms, ev \in EncEvents, d \in MsgData :
         Encoded(r, PackMessageBytes("server", ev, d))
    /\ UNCHANGED netSent
    /\ UNCHANGED <<clientVars, registryVars, tickVars, msgVars, joinVars>>

\* _sendClientId(client) of a server Room
RoomSendClientId ==
    /\ encodes < MaxEncodes
    /\ encodes' = encodes + 1
    /\ \E r \in Rooms, id \in Ids : Encoded(r, ClientIdBytes(id))
    /\ UNCHANGED netSent
    /\ UNCHANGED <<clientVars, registryVars, tickVars, msgVars, joinVars>>

\* _sendRoomInfo(client) of a server Room
RoomSendRoomInfo ==
    /\ encodes < MaxEncodes
    /\ encodes' = encodes + 1
    /\ \E r \in Rooms : Encoded(r, RoomInfoBytes(r))
    /\ UNCHANGED netSent
    /\ UNCHANGED <<clientVars, registryVars, tickVars, msgVars, joinVars>>

EncNext ==
    \/ RoomPackMessage
    \/ RoomSendClientId
    \/ RoomSendRoomInfo

\* the client's send(event, message): this._net.send(this._packMessage(event, message))
ClientSend ==
    /\ calls < MaxCalls
    /\ calls' = calls + 1
    /\ \E ev \in Events :
         LET m == PackMessage(ev)
         IN /\ netSent' = IF m.raised THEN netSent ELSE Append(netSent, m.frame)
            /\ lastCall' = [op |-> "clientSend", ev |-> ev, target |-> 0,
                            raised |-> m.raised, skipped |-> {}]
    /\ UNCHANGED <<clients, status, wire, live, lastOps, hookSaw>>
    /\ UNCHANGED <<BUFFER, view, snap, encodes>>
    /\ UNCHANGED <<clientVars, tickVars, msgVars, joinVars>>

\* the send paths of both sides, over the server's sessions
SendNext ==
    \/ TransportAccept
    \/ AuthRejected
    \/ BeginClose
    \/ TransportClose
    \/ CallSend
    \/ CallBroadcast
    \/ ClientSend

(***************************************************************************)
(* The join: the client's connection is one of the server's sessions, and  *)
(* the frames the server handed to that session's transport reach the      *)
(* client's _onMessage in the order they were sent.                        *)
(***************************************************************************)

JoinInit == mySession = 0

\* a transport is accepted and onClientAuth rejects it with a message of the
\* application's: CloseReason with that message, then the close
AuthRejectedMessage ==
    /\ \E c \in Ids : status[c] = "None"
    /\ \E t \in Texts :
         LET c == NextId
         IN /\ Commit(InternalSend(RoomState, c, Frame("CloseReason", t, 0)))
            /\ status' = [status EXCEPT ![c] = "Closed"]
    /\ UNCHANGED <<live, lastCall, calls>>
    /\ UNCHANGED <<clientVars, tickVars, msgVars, encVars, joinVars>>

\* the client's open transport is one of the sessions the server accepted (the two
\* sides share nothing before the first delivery, so the accept may come in any order
\* with the client's own steps)
BindSession ==
    /\ net = "open"
    /\ mySession = 0
    /\ \E c \in Ids : status[c] # "None" /\ mySession' = c
    /\ UNCHANGED <<clientVars, registryVars, tickVars, msgVars, encVars>>

\* the transport delivers the session's next frame to the client's _onMessage
DeliverNext ==
    /\ net = "open"
    /\ mySession # 0
    /\ received < Len(wire[mySession])
    /\ received' = received + 1
    /\ LET f == wire[mySession][received + 1]
       IN CASE f.kind = "Ping" -> OnPing
            [] f.kind = "RoomInfo" -> OnRoomInfo(f)
            [] f.kind = "ClientId" -> OnClientId(f)
            [] f.kind = "Error" -> OnError(f)
            [] f.kind = "CloseReason" -> OnCloseReason(f)
    /\ UNCHANGED <<net, connectResultCallback, latencySampleSize, pingDelay, clock,
                   closeFired>>
    /\ UNCHANGED <<registryVars, tickVars, msgVars, encVars, joinVars>>

JoinNext ==
    \/ InternalConnect
    \/ ConnectOpened
    \/ OnClose
    \/ TransportAccept
    \/ AuthRejectedMessage
    \/ BindSession
    \/ DeliverNext

(***************************************************************************)
(* Specifications.                                                         *)
(***************************************************************************)

Init == ClientInit /\ RegistryInit /\ TickInit /\ MsgInit /\ EncInit /\ JoinInit

\* the client-side Room
SpecClient == Init /\ [][ClientNext]_vars
\* the server-side Room's registry, send and broadcast
SpecServer == Init /\ [][ServerNext]_vars
\* the server-side Room's ticker
SpecTick == Init /\ [][TickNext]_vars
\* user messages between the two sides
SpecMsg == Init /\ [][MsgNext]_vars
\* send and broadcast of the server with the client's send
SpecSend == Init /\ [][SendNext]_vars
\* the server Rooms of one process encoding
SpecEnc == Init /\ [][EncNext]_vars
\* the client joining the server Room over an in-order transport
SpecJoin == Init /\ [][JoinNext]_vars

(***************************************************************************)
(* The claims.                                                             *)
(***************************************************************************)

Settled(p) == p.state \in {"fulfilled", "rejected"}

\* C1: the connect outcome is the one the first RoomInfo (success), Error (failure with
\* the error text) or CloseReason (failure with the reason text) frame gives it, and
\* no later frame changes it; it stays pending while none has been received.
C1_ConnectSettledByFirstFrame ==
    /\ firstControl = NoFrame => ~Settled(connectPromise)
    /\ firstControl.kind = "RoomInfo" =>
         connectPromise = [state |-> "fulfilled", value |-> Undefined]
    /\ firstControl.kind \in {"Error", "CloseReason"} =>
         connectPromise = [state |-> "rejected", value |-> firstControl.text]

\* C2: once the transport has closed, the connect outcome is settled (a close before
\* any RoomInfo, Error or CloseReason frame settles it as a failure).
C2_CloseSettlesConnect == net = "closed" => Settled(connectPromise)

\* the UserPacket frames among the frames handed to a transport
RECURSIVE UserPackets(_)
UserPackets(w) ==
    IF w = <<>> THEN 0
    ELSE (IF w[1].kind = "UserPacket" THEN 1 ELSE 0) + UserPackets(Tail(w))

\* C3: a step hands no UserPacket to the transport of a session that is not Joined;
\* send to such a session raises no error, and broadcast raises none on account of
\* the sessions it skips (a call raises only for an event id outside 0..255).
C3_OnlyJoinedReceive ==
    [][/\ \A c \in Ids : status[c] # "Joined" => UserPackets(wire'[c]) = UserPackets(wire[c])
       /\ (calls' # calls /\ lastCall'.raised) =>
            (~ValidEvent(lastCall'.ev) /\ (lastCall'.op = "send" => lastCall'.skipped = {}))]_vars

\* C3's case: a broadcast skipped a registered session and delivered to another
C3_Witness ==
    /\ lastCall.op = "broadcast"
    /\ lastCall.skipped # {}
    /\ ~lastCall.raised
    /\ \E c \in Ids : UserPackets(wire[c]) > 0

\* C4: when the leave hook runs for a session, the session's id is no longer a key of
\* the registry: the removal is the step before the hook.
C4_LeaveHookAfterRemoval ==
    hookSaw.hook = "left" =>
        /\ hookSaw.c \notin hookSaw.keys
        /\ (lastOps # <<>> /\ lastOps[Len(lastOps)] = "onClientLeft") =>
             lastOps = <<"clientsDelete", "onClientLeft">>

\* C4's case: the leave hook ran while other sessions were registered
C4_Witness == hookSaw.hook = "left" /\ hookSaw.keys # {} /\ lastOps # <<>>

\* C5 as claimed: on accept the steps are ClientId, RoomInfo, the join hook, the
\* registry insert, so the join hook runs before the session is in the registry.
C5_JoinHookBeforeInsert ==
    /\ (lastOps # <<>> /\ lastOps[1] = "sendClientId") =>
         lastOps = <<"sendClientId", "sendRoomInfo", "onClientJoined", "clientsSet">>
    /\ hookSaw.hook = "joined" => hookSaw.c \notin hookSaw.keys

\* C5 amended: on accept the steps are ClientId, RoomInfo, the registry insert, the
\* join hook; the ClientId frame precedes the RoomInfo frame on the wire and the join
\* hook runs with the session already in the registry.
C5_InsertBeforeJoinHook ==
    /\ (lastOps # <<>> /\ lastOps[1] = "sendClientId") =>
         lastOps = <<"sendClientId", "sendRoomInfo", "clientsSet", "onClientJoined">>
    /\ hookSaw.hook = "joined" => hookSaw.c \in hookSaw.keys
    /\ \A c \in Ids : status[c] = "Joined" =>
         /\ Len(wire[c]) >= 2
         /\ wire[c][1] = Frame("ClientId", "", c)
         /\ wire[c][2] = Frame("RoomInfo", ServerRoomId, 0)

\* C5's case: a session was accepted into a room that already held another
C5_Witness ==
    /\ hookSaw.hook = "joined"
    /\ Cardinality(hookSaw.keys) >= 2
    /\ lastOps # <<>> /\ lastOps[1] = "sendClientId"

\* C6: the registry holds exactly the sessions accepted and not yet closed, each under
\* its own id.
C6_RegistryIsLiveSessions ==
    /\ DOMAIN clients = live
    /\ \A k \in DOMAIN clients : clients[k] = k

\* C6's case: after accepts and closes, some session is gone and some remain
C6_Witness ==
    /\ Cardinality(live) >= 2
    /\ \E c \in Ids : c \notin live /\ Len(wire[c]) >= 2

\* the ticker runs: constructed, not disabled, not stopped, a fixed step S > 0
TickerRuns ==
    /\ constructed
    /\ ~disableBuiltinTicker
    /\ ~stopTicking
    /\ ~rateChanged
    /\ deltaTimeMs.k = "num" /\ deltaTimeMs.v > 0

\* C7: while the ticker runs with a fixed step S, tickNumber = floor(T_clamped / S),
\* T_clamped the sum over the wakes of min(maxAccumulationMs, elapsed time).
C7_TickNumberIsClampedQuotient ==
    TickerRuns => tickNumber = clamped \div deltaTimeMs.v

\* C7's case: several ticks after wakes of which one was clamped
C7_Witness == TickerRuns /\ tickNumber >= 3 /\ clamped < lastTime /\ tickCalls >= 2

\* the tick rate is configured as 0, or was never configured
RateZeroOrUnset == deltaTimeMs.k \in {"undef", "inf"}

\* C8: with the tick rate 0 or never configured, no step of the room schedules a wake
\* of the loop or invokes the tick hook.
C8_DisabledLoopSkipped ==
    (constructed /\ RateZeroOrUnset) => (~rescheduled /\ tickCalls = 0)

\* the last n elements of a sequence
LastN(q, n) == IF Len(q) <= n THEN q ELSE SubSeq(q, Len(q) - n + 1, Len(q))

\* C9: the latency window holds at most latencySampleSize samples, and once more than
\* that many Ping replies have been recorded it is the last latencySampleSize samples
\* in arrival order, currentLatency being the newest. Stated of the states a recorded
\* Ping reply leaves, with the capacity configured at that moment.
C9_WindowWithinCapacity ==
    [][recorded' # recorded =>
        /\ Len(latencySamples') <= latencySampleSize'
        /\ Len(recorded') > latencySampleSize' =>
             /\ latencySamples' = LastN(recorded', latencySampleSize')
             /\ CurrentLatency(latencySamples') = recorded'[Len(recorded')]]_vars

\* pingDelay is 0 or undefined
PingDisabled == ~pingDelay.defined \/ pingDelay.ms = 0

\* C10: with pingDelay 0 or undefined, a Ping reply records its sample and schedules no
\* further Ping.
C10_NoRescheduleWhenDisabled ==
    [][(recorded' # recorded /\ PingDisabled) => timers' \subseteq timers]_vars

\* C14: once the stop flag is set, no wake of the loop reschedules itself, whatever the
\* accumulator holds at that wake. Stated of a ticker with a configured positive rate.
C14_StoppedLoopNotRescheduled ==
    (stopTicking /\ deltaTimeMs.k = "num" /\ deltaTimeMs.v > 0) => ~rescheduled

\* C15: once the stop flag is set, no step invokes the tick hook or changes tickNumber.
C15_StoppedLoopNeverTicks ==
    [][stopTicking => (tickNumber' = tickNumber /\ tickCalls' = 0)]_vars

\* C15's case: the loop was stopped after it had ticked, with a full step accumulated
\* at a later wake
C15_Witness ==
    /\ stopTicking
    /\ tickNumber >= 1
    /\ ~immediate
    /\ AtLeast(accumulator, deltaTimeMs)

\* C19: a wake that starts with an accumulator a, 0 <= a < tickIntervalMs, runs the tick
\* hook at most floor((a + maxAccumulationMs) / tickIntervalMs) times.
C19_TicksPerWakeBounded ==
    [][(deltaTimeMs.k = "num" /\ 0 <= accumulator /\ accumulator < deltaTimeMs.v) =>
        tickCalls' <= (accumulator + maxAccumulation) \div deltaTimeMs.v]_vars

\* C19's case: a wake after a stall longer than maxAccumulation ran the hook, and fewer
\* times than the stall holds steps
C19_Witness ==
    /\ constructed
    /\ deltaTimeMs.k = "num" /\ deltaTimeMs.v > 0
    /\ tickCalls >= 1
    /\ maxAccumulation < deltaTimeMs.v * (tickCalls + 2)
    /\ clamped + 2 * deltaTimeMs.v <= lastTime

\* C16: at most one scheduled ping-resend timer is pending, for any sequence of Ping
\* frames received and Ping sends.
C16_AtMostOnePingTimer == Cardinality(timers) <= 1

\* C17: after the transport's close event no ping-resend timer is pending, and the
\* client sends no further Ping frame.
C17_NoPingAfterClose ==
    [][net' = "closed" =>
        /\ timers' = {}
        /\ net = "closed" => pingsSent' = pingsSent]_vars

\* a payload that follows the wire format from position p on: tag 0 and the remaining
\* bytes, or tag 1, a length and that many code units
WellFormedData(b, p) ==
    /\ p <= Len(b)
    /\ \/ b[p] = 0
       \/ /\ b[p] = 1
          /\ p + 2 <= Len(b)
          /\ p + 2 + 2 * ReadUInt16LE(b, p + 1) <= Len(b)

\* a UserPacket frame that follows the wire format
WellFormedUserPacket(b) ==
    /\ Len(b) >= 2
    /\ \/ b[2] = 0 /\ Len(b) >= 3 /\ WellFormedData(b, 4)
       \/ /\ b[2] = 1
          /\ Len(b) >= 4
          /\ 4 + 2 * ReadUInt16LE(b, 3) <= Len(b)
          /\ WellFormedData(b, 5 + 2 * ReadUInt16LE(b, 3))

\* C11: the bytes one side's _packMessage produces for a UserPacket, decoded by the
\* other side, give the same event identifier and the same payload, and a handler
\* invoked for the frame is handed that payload.
C11_DecodeEncodeIsIdentity ==
    lastRecv.sent # NoSent =>
        LET e == ReadEvent(lastRecv.side, lastRecv.bytes)
            c == GetUserMessageContent(lastRecv.side, lastRecv.bytes, e.next)
        IN /\ lastRecv.bytes =
                PackMessageBytes(Peer(lastRecv.side), lastRecv.sent.event, lastRecv.sent.data)
           /\ e.ok /\ e.event = lastRecv.sent.event
           /\ c.ok /\ c.data = lastRecv.sent.data
           /\ lastRecv.event = lastRecv.sent.event
           /\ lastRecv.invoked # 0 => lastRecv.data = lastRecv.sent.data

\* a handler received a text payload with a non-ASCII code unit under a string event
C11_Witness ==
    /\ lastRecv.sent = [event |-> EvText(Text5), data |-> DataText(TextHi)]
    /\ lastRecv.invoked \in Handlers
    /\ lastRecv.data = DataText(TextHi)

\* C12: a received UserPacket that does not follow the wire format invokes no message
\* handler and the connection it arrived on is closed.
C12_MalformedDiscardedAndClosed ==
    (lastRecv.side \in Sides /\ ~WellFormedUserPacket(lastRecv.bytes)) =>
        (lastRecv.invoked = 0 /\ lastRecv.closed)

\* C18: a received UserPacket invokes exactly the handler last registered for its exact
\* event identifier, number and string identifiers apart, and with none registered it
\* invokes nothing and raises no error.
C18_ExactHandlerInvoked ==
    lastRecv.sent # NoSent =>
        LET h == Lookup(registered[lastRecv.side], lastRecv.sent.event)
        IN /\ lastRecv.invoked = h
           /\ h = 0 => ~lastRecv.threw

\* C13 as stated: send (client and server) and broadcast called with a numeric event
\* outside 0..255 raise an error to the caller and hand no bytes to any transport.
C13_OutOfRangeAlwaysRaises ==
    [][(calls' # calls /\ ~ValidEvent(lastCall'.ev)) =>
        (lastCall'.raised /\ wire' = wire /\ netSent' = netSent)]_vars

\* C13 amended: with a numeric event outside 0..255 no bytes are handed to any
\* transport, and the call raises an error to the caller except a server send to a
\* session that is not Joined, which returns silently.
C13_OutOfRangeRaisesUnlessSkipped ==
    [][(calls' # calls /\ ~ValidEvent(lastCall'.ev)) =>
        /\ wire' = wire
        /\ netSent' = netSent
        /\ lastCall'.raised <=> ~(lastCall'.op = "send" /\ lastCall'.skipped # {})]_vars

\* a server send with event 256 to a Joined session that already got its frames raised
C13_Witness ==
    /\ lastCall.op = "send"
    /\ ~ValidEvent(lastCall.ev)
    /\ lastCall.raised
    /\ status[lastCall.target] = "Joined"
    /\ UserPackets(wire[lastCall.target]) = 0

\* C20: an encode by one server Room never changes the bytes of the view another
\* server Room's most recent encode returned.
C20_ViewsKeepTheirBytes ==
    \A r \in Rooms : SubSeq(BUFFER, 1, view[r]) = snap[r]

\* the session id the server sent the client in a ClientId frame, if it sent one
SentClientIds == {wire[mySession][i].num : i \in {j \in 1..Len(wire[mySession]) :
                                                   wire[mySession][j].kind = "ClientId"}}

\* C21: over an in-order transport, whenever the client's connect is settled as
\* success, localClientId is the session id the server sent in its ClientId frame (no
\* longer -1) and the client's room id is the server room's id.
C21_SuccessKnowsIdAndRoom ==
    connectPromise.state = "fulfilled" =>
        /\ mySession # 0
        /\ localClientId # NoClientId
        /\ localClientId \in SentClientIds
        /\ roomId = ServerRoomId

====
